---- MODULE Spec2Model ----
(***************************************************************************)
(* The isometric city builder in its two variants:                         *)
(*   - the Phaser variant (GridManager.js, GameScene.js, BuildingRegistry) *)
(*   - the React variant (src/app/page.tsx).                               *)
(* A run of the program is one variant; `variant` is fixed by Init.        *)
(***************************************************************************)
EXTENDS Integers, Sequences, FiniteSets, TLC

VARIABLES
    variant,        \* "phaser" or "react": which game this run is
    grid,           \* GridManager.grid: cell -> Tile
    money,          \* GameScene.money
    population,     \* GameScene.population
    happiness,      \* GameScene.happiness, an IEEE double (see Float below)
    costs,          \* GameScene.costs: kind -> current cost
    previewFlipped, \* GameScene.previewTile.isFlipped
    saved,          \* localStorage['townBuilder_saveState'], parsed, or NoDoc
    purchases,      \* number of charged placements so far (bounds the run)
    rgrid,          \* React: the `grid` state, cell <<y, x>> -> Tile
    rmoney,         \* React: the `money` state
    pending,        \* React: click handlers suspended at `await initSound()`
    rclicks,        \* React: clicks so far (bounds the run)
    now,            \* scene time in ms (this.time.now, update's `time`)
    lastTickTime,   \* GameScene.lastTickTime
    pointerSeen,    \* the once('pointerdown') listener has run
    ticks,          \* number of handleTick calls made by update so far
    isDragging,     \* GameScene.isDragging
    dragStart,      \* GameScene.dragStartX, dragStartY
    pointer,        \* the pointer's position <<x, y>> (px)
    buttons,        \* the mouse buttons held down (0 left, 2 right)
    pressAt,        \* where the latest pointerdown happened
    strayed,        \* a move since then, pointer down, was > 10 px from it
    upPlaced,       \* the latest pointerup called placeTile
    initialized,    \* SoundManager.initialized / AudioManager.initialized
    soundInitialized, \* React: the `soundInitialized` state
    awaiting,       \* init calls suspended at `await Tone.start()` that no
                    \* click handler waits for
    created,        \* times init created the synths (React) or started the
                    \* background music player (Phaser)
    playerLoaded,   \* Phaser: bgMusicPlayer.loaded
    listeners,      \* Phaser: callbacks registered with bgMusicPlayer.on('load')
    tileWidth,      \* Phaser: Config.tileWidth (px)
    tileHeight,     \* Phaser: Config.tileHeight (px)
    offsetX,        \* React: getOffsets().offsetX (px)
    offsetY,        \* React: getOffsets().offsetY (px)
    isoStep,        \* "idle", "world" (a cell was converted to a position) or
                    \* "grid" (that position was converted back)
    lastCell,       \* the cell last converted to a position
    lastWorld,      \* the position it was given
    lastGrid        \* the cell that position was converted back to

pvars == <<grid, money, population, happiness, costs, previewFlipped, saved,
           purchases>>

rvars == <<rgrid, rmoney, pending, rclicks>>

\* The clock.  Spec follows the game with the clock abstracted (Tick stands
\* for update calls that found the interval elapsed) and leaves these
\* unchanged; ClockSpec follows update call by call.
cvars == <<now, lastTickTime, pointerSeen, ticks>>

\* The pointer.  Spec follows whole clicks (PointerUp stands for a press and
\* a release with no drag in between) and leaves these unchanged; DragSpec
\* follows the pointer events one by one.  pressAt, strayed and upPlaced
\* record the gesture for the statements about it; no handler reads them.
dvars == <<isDragging, dragStart, pointer, buttons, pressAt, strayed, upPlaced>>

\* The sound.
avars == <<initialized, soundInitialized, awaiting, created, playerLoaded,
           listeners>>

\* The isometric conversions.  Only IsoSpec follows them.
ivars == <<tileWidth, tileHeight, offsetX, offsetY, isoStep, lastCell,
           lastWorld, lastGrid>>

vars == <<variant, pvars, rvars, cvars, dvars, avars, ivars>>

(***************************************************************************)
(* Bounds of the model.                                                    *)
(***************************************************************************)
GridSize == 4        \* Config.gridSize, scaled down
MaxPurchases == 4    \* the player buys at most this many buildings
MaxFlipped == 2      \* tiles the player leaves mirrored at any time
MaxMoney == 1200     \* the timer is followed while the balance stays below this
TickBurst == 120     \* timer ticks in a long idle period
MaxClicks == 3       \* React: clicks the model follows
MaxPending == 2      \* React: click handlers suspended at the same time
MaxAwaiting == 2     \* other init calls suspended at the same time
MaxBuilds == 12      \* EconomySpec: buildings the player lines up
MaxTime == 20000     \* ClockSpec: scene time (ms) the model follows

(***************************************************************************)
(* JavaScript numbers.  money, population and the costs stay integers.     *)
(* happiness accumulates 0.1, 0.2 and 0.5, which are IEEE-754 doubles:     *)
(* every value it takes is an integer multiple of u = 2^-56.  A double x   *)
(* is held as <<k, d>> with 5 * x / u = k * 2^55 + d, that is              *)
(* x = k/10 + (d/5) * u: k counts tenths, d is the representation error.   *)
(* Two doubles are equal iff their pairs are equal (|d| stays tiny).       *)
(***************************************************************************)
F(k, d) == <<k, d>>
F0_1 == F(1, 2)      \* 0.1 = 0x1.999999999999ap-4
F0_2 == F(2, 4)      \* 0.2 = 0x1.999999999999ap-3
F0_5 == F(5, 0)      \* 0.5
F1_0 == F(10, 0)     \* 1.0
F1_5 == F(15, 0)     \* 1.5
FZero == F(0, 0)

FNeg(x) == F(-x[1], -x[2])

FSign(x) == IF x[1] > 0 THEN 1
            ELSE IF x[1] < 0 THEN -1
            ELSE IF x[2] > 0 THEN 1 ELSE IF x[2] < 0 THEN -1 ELSE 0

FLess(x, y) == x[1] < y[1] \/ (x[1] = y[1] /\ x[2] < y[2])

\* The positive value <<k, d>> lies below t tenths.
FBelow(k, d, t) == k < t \/ (k = t /\ d < 0)

\* Spacing of the doubles, in units of u, in the binade of the positive
\* value <<k, d>> (53-bit significands: 2^(e-52) for x in [2^e, 2^(e+1))).
Ulp(k, d) ==
    IF k <= 1 THEN 1
    ELSE IF k = 2 THEN 2
    ELSE IF FBelow(k, d, 5) THEN 4
    ELSE IF FBelow(k, d, 10) THEN 8
    ELSE IF FBelow(k, d, 20) THEN 16
    ELSE IF FBelow(k, d, 40) THEN 32
    ELSE IF FBelow(k, d, 80) THEN 64
    ELSE IF FBelow(k, d, 160) THEN 128
    ELSE IF FBelow(k, d, 320) THEN 256
    ELSE IF FBelow(k, d, 640) THEN 512
    ELSE IF FBelow(k, d, 1280) THEN 1024
    ELSE IF FBelow(k, d, 2560) THEN 2048
    ELSE IF FBelow(k, d, 5120) THEN 4096
    ELSE IF FBelow(k, d, 10240) THEN 8192
    ELSE 16384

\* The positive value <<k, d>> moved to the multiple of U next to it, given
\* r = (x / u) mod U and whether the multiple of U below it is odd.
FRoundBy(k, d, U, r, odd) ==
    IF 2 * r < U \/ (2 * r = U /\ ~odd)
    THEN F(k, d - 5 * r)
    ELSE F(k, d - 5 * r + 5 * U)

\* The same given r2 = (x / u) mod 2U.
FRoundMod(k, d, U, r2) == FRoundBy(k, d, U, r2 % U, r2 \div U = 1)

\* 5 * 19661 = 1 (mod 32768), so multiplying d by 19661 recovers
\* (x / u) mod 2U from 5 * (x / u) = d (mod 2U), 2U <= 32768.
FRoundTo(k, d, U) == FRoundMod(k, d, U, ((d % (2 * U)) * 19661) % (2 * U))

\* Round-to-nearest, ties-to-even, of the exact positive value <<k, d>>.
FRoundPos(k, d) == FRoundTo(k, d, Ulp(k, d))

FRound(x) ==
    IF FSign(x) = 0 THEN FZero
    ELSE IF FSign(x) > 0 THEN FRoundPos(x[1], x[2])
    ELSE FNeg(FRoundPos(-x[1], -x[2]))

\* x + y, x - y and n * x (n a small integer) as JavaScript computes them.
FAdd(x, y) == FRound(F(x[1] + y[1], x[2] + y[2]))
FSub(x, y) == FAdd(x, FNeg(y))
FMulInt(n, x) == FRound(F(n * x[1], n * x[2]))

\* Math.abs(x) > 0.01.  0.01 lies strictly between 0 and 0.1 - 2^-40, so a
\* value k/10 + (d/5)u with tiny d exceeds it exactly when |k| >= 1.
FAbsAbove0_01(x) == x[1] >= 1 \/ x[1] <= -1

\* The integer n as a double.
FInt(n) == F(10 * n, 0)

\* Math.floor of a double.
FFloor(x) ==
    LET n0 == x[1] \div 10   \* floor division
    IN  IF x[1] % 10 # 0 \/ x[2] >= 0 THEN n0 ELSE n0 - 1

\* Phaser.Math.Clamp(x, lo, hi) = Math.max(lo, Math.min(hi, x)).
FMin(x, y) == IF FLess(y, x) THEN y ELSE x
FMax(x, y) == IF FLess(x, y) THEN y ELSE x
FClamp(x, lo, hi) == FMax(lo, FMin(hi, x))

(***************************************************************************)
(* The building catalog (BuildingRegistry.js).  Absent effects are 0,      *)
(* an absent requirement is 0, an absent floatText is "".                  *)
(***************************************************************************)
BuildingRegistry ==
    [grass      |-> [cost |-> 0, size |-> 1, population |-> 0,
                     happiness |-> FZero, reqPopulation |-> 0, floatText |-> ""],
     house      |-> [cost |-> 60, size |-> 1, population |-> 1,
                     happiness |-> FZero, reqPopulation |-> 0, floatText |-> "+1 pop"],
     shop       |-> [cost |-> 40, size |-> 1, population |-> 0,
                     happiness |-> FNeg(F0_1), reqPopulation |-> 0, floatText |-> "-0.1 happy"],
     park       |-> [cost |-> 100, size |-> 1, population |-> 0,
                     happiness |-> F0_2, reqPopulation |-> 0, floatText |-> "+0.2 happy"],
     university |-> [cost |-> 1000, size |-> 2, population |-> -1,
                     happiness |-> F0_5, reqPopulation |-> 1, floatText |-> "+0.5 happy -1 pop"],
     market     |-> [cost |-> 10000, size |-> 2, population |-> 0,
                     happiness |-> FZero, reqPopulation |-> 0, floatText |-> "MARKET BUILT"]]

Kinds == DOMAIN BuildingRegistry

\* A lookup that forgets the requirements (not the program's behaviour).
getBuildingConfig_NoRequirements(type) ==
    IF type \in Kinds THEN [BuildingRegistry[type] EXCEPT !.reqPopulation = 0]
    ELSE BuildingRegistry["grass"]

getBuildingConfig(type) ==
    IF type \in Kinds THEN BuildingRegistry[type] ELSE BuildingRegistry["grass"]

(***************************************************************************)
(* Tiles (Tile.js) and the grid (GridManager.js).                          *)
(***************************************************************************)
Cells == (0..(GridSize - 1)) \X (0..(GridSize - 1))

NoMaster == <<>>     \* masterTile: null

\* new Tile(scene, x, y, type, r, c)
NewTile(type) ==
    [type |-> type, isFlipped |-> FALSE, masterTile |-> NoMaster,
     isMaster |-> FALSE, visible |-> TRUE]

updateType(tile, type) == [tile EXCEPT !.type = type]

setFlip(tile, flipped) == [tile EXCEPT !.isFlipped = flipped]

setVisible(tile, v) == [tile EXCEPT !.visible = v]

isValidCoord(row, col) ==
    row >= 0 /\ row < GridSize /\ col >= 0 /\ col < GridSize

\* The size x size block anchored at (row, col), in the order of the loops.
Block(row, col, size) ==
    (row..(row + size - 1)) \X (col..(col + size - 1))

\* A count of the cells a kind covers, member cells included (not the
\* program's behaviour).
countTiles_Covered(g, type) ==
    Cardinality({cell \in Cells :
        g[IF g[cell].masterTile # NoMaster THEN g[cell].masterTile ELSE cell].type
            = type})

\* countTiles(type)
countTiles(g, type) == Cardinality({cell \in Cells : g[cell].type = type})

(***************************************************************************)
(* The scene's economy (GameScene.js).  A scene state is a record          *)
(* [grid, money, population, happiness, costs].                           *)
(***************************************************************************)
updateMoney(s, amount) == [s EXCEPT !.money = s.money + amount]

updatePopulation(s, amount) == [s EXCEPT !.population = s.population + amount]

updateHappiness(s, amount) == [s EXCEPT !.happiness = FAdd(s.happiness, amount)]

\* A price rise that hits every kind in the catalog, not only the one bought.
incrementCost_AllKinds(s, type) ==
    [s EXCEPT !.costs = [k \in DOMAIN s.costs |->
                            IF s.costs[k] > 0 THEN (11 * s.costs[k] + 5) \div 10
                            ELSE s.costs[k]]]

\* A price rise by a tenth of the catalog cost each time, without
\* compounding (not the program's behaviour).
incrementCost_FlatRise(s, type) ==
    IF s.costs[type] > 0
    THEN [s EXCEPT !.costs[type] = @ + (BuildingRegistry[type].cost \div 10)]
    ELSE s

\* Math.round(c * 1.1): 1.1 is a double just above 11/10, so the product is
\* never below an exact half and Math.round rounds halves up.
incrementCost(s, type) ==
    IF s.costs[type] > 0
    THEN [s EXCEPT !.costs[type] = (11 * s.costs[type] + 5) \div 10]
    ELSE s

\* A tile is occupied when it is not grass or is part of a structure
\* (tile.texture.key !== 'grass' || tile.masterTile).
isOccupied(tile) == tile.type # "grass" \/ tile.masterTile # NoMaster

\* The outcome of a call: the scene state it leaves, the last floating text it
\* showed ("" for none), and whether it reached updateDepths/saveGame.
Outcome(s, text, done) == [s |-> s, text |-> text, done |-> done]

NeedMoneyText(cost) == <<"NEED $", cost>>
NeedPopulationText(n) == <<"NEED pop", n>>
Text(str) == <<str>>
NoText == <<>>

\* "Reverse effects" / "Apply new effects": an effect that is absent or 0 is
\* skipped (if (config.effects.population) ...).
reverseHappiness(s, config) ==
    IF config.happiness # FZero
    THEN updateHappiness(s, FNeg(config.happiness)) ELSE s

reversePopulation(s, config) ==
    IF config.population # 0
    THEN updatePopulation(s, -config.population) ELSE s

reverseEffects(s, config) == reverseHappiness(reversePopulation(s, config), config)

applyHappiness(s, config) ==
    IF config.happiness # FZero
    THEN updateHappiness(s, config.happiness) ELSE s

applyPopulation(s, config) ==
    IF config.population # 0
    THEN updatePopulation(s, config.population) ELSE s

applyEffects(s, config) == applyHappiness(applyPopulation(s, config), config)

\* clearMultiTile(masterPos)
clearArea(s, area) ==
    [s EXCEPT !.grid =
        [cell \in Cells |->
            IF cell \in area
            THEN setFlip(setVisible(
                    [updateType(s.grid[cell], "grass")
                        EXCEPT !.masterTile = NoMaster, !.isMaster = FALSE],
                    TRUE), FALSE)
            ELSE s.grid[cell]]]

clearMultiTileOf(s, masterPos, config) ==
    clearArea(reverseEffects(s, config),
              Block(masterPos[1], masterPos[2], config.size))

clearMultiTile(s, masterPos) ==
    clearMultiTileOf(s, masterPos, getBuildingConfig(s.grid[masterPos].type))

\* "Deduct money and increase cost"
chargeCost(s, type, cost) ==
    IF cost > 0 THEN incrementCost(updateMoney(s, -cost), type) ELSE s

\* A set-up that marks the anchor only and leaves the rest of the block as it
\* was.
setUpMultiTile_AnchorOnly(s, newFlipped, row, col, type, size) ==
    [s EXCEPT !.grid[<<row, col>>] =
        setVisible(
            [setFlip(updateType(s.grid[<<row, col>>], type), newFlipped)
                EXCEPT !.masterTile = <<row, col>>, !.isMaster = TRUE],
            TRUE)]

\* "Set up multi-tile": every tile of the block points at the anchor; the
\* anchor takes the texture and the flip, the others are hidden.
setUpMultiTile(s, newFlipped, row, col, type, size) ==
    [s EXCEPT !.grid =
        [cell \in Cells |->
            IF cell \notin Block(row, col, size) THEN s.grid[cell]
            ELSE IF cell = <<row, col>>
            THEN setVisible(
                    [setFlip(updateType(s.grid[cell], type), newFlipped)
                        EXCEPT !.masterTile = <<row, col>>, !.isMaster = TRUE],
                    TRUE)
            ELSE [setVisible(s.grid[cell], FALSE)
                    EXCEPT !.masterTile = <<row, col>>, !.isMaster = FALSE]]]

\* "Clean up old building if it was a multi-tile", else "Reverse effects of
\* old building"
cleanUpOld(s, oldTile) ==
    IF oldTile.masterTile # NoMaster
    THEN clearMultiTile(s, oldTile.masterTile)
    ELSE IF oldTile.type # "grass"
    THEN reverseEffects(s, getBuildingConfig(oldTile.type))
    ELSE s

\* "Set up multi-tile" when the kind covers more than one cell
setUpIfMultiTile(s, newFlipped, row, col, type, size) ==
    IF size > 1 THEN setUpMultiTile(s, newFlipped, row, col, type, size) ELSE s

\* The part of placeTile that runs when oldType !== type, after its two
\* checks: charge, clean up the old building, apply effects, set up the block.
placeCharged(s, newFlipped, row, col, type, cost) ==
    setUpIfMultiTile(
        applyEffects(
            cleanUpOld(chargeCost(s, type, cost), s.grid[<<row, col>>]),
            getBuildingConfig(type)),
        newFlipped, row, col, type, getBuildingConfig(type).size)

\* The last step of placeTile for a size-1 kind: the clicked tile takes the
\* texture and the flip and belongs to no structure.
retexture(s, newFlipped, row, col, type) ==
    [s EXCEPT !.grid[<<row, col>>] =
        [setFlip(updateType(s.grid[<<row, col>>], type), newFlipped)
            EXCEPT !.masterTile = NoMaster, !.isMaster = FALSE]]

\* A placement that charges a reorientation too (not the program's).
placeAccepted_AlwaysCharges(s, newFlipped, row, col, type, cost) ==
    IF getBuildingConfig(type).size > 1
    THEN placeCharged(s, newFlipped, row, col, type, cost)
    ELSE retexture(placeCharged(s, newFlipped, row, col, type, cost),
                   newFlipped, row, col, type)

\* placeTile once none of its checks has rejected the call
placeAccepted(s, newFlipped, row, col, type, cost) ==
    IF getBuildingConfig(type).size > 1
    THEN placeCharged(s, newFlipped, row, col, type, cost)
    ELSE retexture(IF s.grid[<<row, col>>].type # type
                   THEN placeCharged(s, newFlipped, row, col, type, cost)
                   ELSE s,
                   newFlipped, row, col, type)

\* A funds test that lets every purchase through (not the program's).
cannotAfford_Never(s, cost) == FALSE

\* cost > 0 && this.scene.money < cost
cannotAfford(s, cost) == cost > 0 /\ s.money < cost

\* placeTile(row, col, type), with newFlipped = scene.previewTile.isFlipped
placeTile(s, newFlipped, row, col, type) ==
    IF ~isValidCoord(row, col) THEN Outcome(s, NoText, FALSE)
    ELSE
    LET config == getBuildingConfig(type)
        size == config.size
        multiTile == size > 1
        areaBlocked ==
            \E cell \in Block(row, col, size) :
                IF ~isValidCoord(cell[1], cell[2]) THEN TRUE
                ELSE isOccupied(s.grid[cell])
        oldTile == s.grid[<<row, col>>]
        oldType == oldTile.type
        oldFlipped == oldTile.isFlipped
        cost == IF s.costs[type] # 0 THEN s.costs[type] ELSE config.cost
    IN  IF multiTile /\ areaBlocked
            THEN Outcome(s, Text("SPACE BLOCKED"), FALSE)
        ELSE IF ~multiTile /\ type # "grass" /\ isOccupied(oldTile) /\ oldType # type
            THEN Outcome(s, Text("OCCUPIED"), FALSE)
        ELSE IF oldType = type /\ oldFlipped = newFlipped /\ ~multiTile
            THEN Outcome(s, NoText, FALSE)
        ELSE IF oldType # type /\ cannotAfford(s, cost)
            THEN Outcome(s, NeedMoneyText(cost), FALSE)
        ELSE IF oldType # type /\ config.reqPopulation # 0
                /\ s.population < config.reqPopulation
            THEN Outcome(s, NeedPopulationText(config.reqPopulation), FALSE)
        ELSE Outcome(placeAccepted(s, newFlipped, row, col, type, cost),
                     IF oldType # type /\ config.floatText # ""
                     THEN Text(config.floatText) ELSE NoText,
                     TRUE)

(***************************************************************************)
(* Persistence (GameScene.saveGame / loadGame, GridManager.getGridData /   *)
(* initGrid).  The document is held parsed: JSON.stringify followed by     *)
(* JSON.parse keeps finite numbers, booleans, strings, null and plain      *)
(* objects, which is all a save holds.                                     *)
(***************************************************************************)
NoDoc == <<>>        \* localStorage.getItem(...) === null

\* A grid snapshot that drops the orientation flags.
getGridData_NoFlip(g) ==
    [cell \in Cells |->
        [type |-> g[cell].type, flipped |-> FALSE,
         masterTile |-> g[cell].masterTile, isMaster |-> g[cell].isMaster]]

getGridData(g) ==
    [cell \in Cells |->
        [type |-> g[cell].type, flipped |-> g[cell].isFlipped,
         masterTile |-> g[cell].masterTile, isMaster |-> g[cell].isMaster]]

\* The gameState object saveGame writes.
saveGame(s) ==
    [money |-> s.money, population |-> s.population, happiness |-> s.happiness,
     costs |-> s.costs, grid |-> getGridData(s.grid)]

\* One iteration of initGrid's inner loop: the Tile built from tileData.
loadTile(tileData) ==
    LET t0 == [NewTile(tileData.type)
                EXCEPT !.masterTile = tileData.masterTile,
                       !.isMaster = tileData.isMaster]
        t1 == IF tileData.flipped THEN setFlip(t0, TRUE) ELSE t0
    IN  IF t1.masterTile # NoMaster /\ ~t1.isMaster
        THEN setVisible(t1, FALSE) ELSE t1

\* initGrid(savedData) for a saved grid that has every row and cell
initGrid(savedData) ==
    [cell \in Cells |-> loadTile(savedData[cell])]

\* A slot of this.grid[r] that holds no Tile (this.grid[r] = [] was run and
\* the loop then threw before filling it).
NoTile ==
    [type |-> "undefined", isFlipped |-> FALSE, masterTile |-> NoMaster,
     isMaster |-> FALSE, visible |-> FALSE]

HasRow(savedData, r) ==
    \A c \in 0..(GridSize - 1) : <<r, c>> \in DOMAIN savedData

\* The first row at which savedData[r][c] throws a TypeError (GridSize if
\* every row is there).
FirstMissingRow(savedData) ==
    CHOOSE r \in 0..GridSize :
        /\ r = GridSize \/ ~HasRow(savedData, r)
        /\ \A q \in 0..(r - 1) : HasRow(savedData, q)

\* this.grid when initGrid(savedData) throws at row stop: the rows before it
\* are rebuilt, row stop was reset to [] and the later rows still hold the
\* tiles of the grid before the call.
initGridThrown(old, savedData, stop) ==
    [cell \in Cells |->
        IF cell[1] < stop THEN loadTile(savedData[cell])
        ELSE IF cell[1] = stop THEN NoTile
        ELSE old[cell]]

\* The scene after the constructor and GridManager's initGrid().
FreshScene ==
    [grid |-> [cell \in Cells |-> NewTile("grass")],
     money |-> 100, population |-> 0, happiness |-> F1_0,
     costs |-> [k \in Kinds |-> BuildingRegistry[k].cost]]

\* A stored text that JSON.parse rejects.
Unparseable == [syntaxError |-> TRUE]

\* The fields loadGame assigns before it touches the grid.
loadEconomy(s, doc) ==
    [s EXCEPT !.money = doc.money, !.population = doc.population,
              !.happiness = doc.happiness,
              !.costs = [k \in (DOMAIN s.costs) \cup (DOMAIN doc.costs) |->
                    IF k \in DOMAIN doc.costs THEN doc.costs[k] ELSE s.costs[k]]]

\* removeAll + initGrid(gameState.grid) on the scene whose economy is loaded;
\* stop is the row at which initGrid throws.
loadGrid(e, doc, stop) ==
    IF stop < GridSize
    THEN [e EXCEPT !.grid = initGridThrown(e.grid, doc.grid, stop)]
    ELSE [e EXCEPT !.grid = initGrid(doc.grid)]

\* loadGame() on scene s with the document doc in localStorage.  The catch
\* block only logs: whatever was assigned before the exception stays.
loadGame(s, doc) ==
    IF "syntaxError" \in DOMAIN doc THEN s
    ELSE IF "grid" \notin DOMAIN doc
    THEN [loadEconomy(s, doc) EXCEPT !.grid = [cell \in Cells |-> NewTile("grass")]]
    ELSE loadGrid(loadEconomy(s, doc), doc, FirstMissingRow(doc.grid))

(***************************************************************************)
(* The tick economy (GameScene.js).                                        *)
(***************************************************************************)
getEffectiveHappiness(s) ==
    LET over == IF s.population - 10 > 0 THEN s.population - 10 ELSE 0
        penalty == FMulInt(over, F0_1)
    IN  FSub(s.happiness, penalty)

calculateIncome(s) ==
    LET shops == countTiles(s.grid, "shop")
        markets == countTiles(s.grid, "market")
        effectiveHappiness == FClamp(getEffectiveHappiness(s), FNeg(F0_5), F1_5)
        baseIncomePerShop == 10 + (s.population \div 5)
        incomePerShop == FFloor(FMulInt(baseIncomePerShop, effectiveHappiness))
        incomePerMarket == incomePerShop * 10
    IN  IF shops > 0 \/ markets > 0
        THEN (IF shops > 0 THEN shops * incomePerShop ELSE 0)
             + (IF markets > 0 THEN markets * incomePerMarket ELSE 0)
        ELSE 0

\* A tick that also wears the mood down (not the program's behaviour).
handleTick_WearsDown(s) ==
    LET income == calculateIncome(s)
    IN  IF income > 0
        THEN updateHappiness(updateMoney(s, income), FNeg(F0_1))
        ELSE s

\* A tick that applies the income whatever its sign (not the program's).
handleTick_Signed(s) == updateMoney(s, calculateIncome(s))

handleTick(s) ==
    LET income == calculateIncome(s)
    IN  IF income > 0 THEN updateMoney(s, income) ELSE s

\* n timer ticks in a row, nothing else happening in between
RECURSIVE handleTicks(_, _)
handleTicks(s, n) ==
    IF n = 0 THEN s
    ELSE IF n = 1 THEN handleTick(s)
    ELSE \* the first half of the run, then the rest from the state it leaves
         \* (bound to x so that it is evaluated once, before the rest)
         CHOOSE r \in {handleTicks(x, n - (n \div 2)) :
                            x \in {handleTicks(s, n \div 2)}} : TRUE

(***************************************************************************)
(* The Phaser game as a state machine.                                     *)
(***************************************************************************)
Scene == [grid |-> grid, money |-> money, population |-> population,
          happiness |-> happiness, costs |-> costs]

SetScene(s) ==
    /\ grid' = s.grid
    /\ money' = s.money
    /\ population' = s.population
    /\ happiness' = s.happiness
    /\ costs' = s.costs

\* Buildings standing on the grid (a structure counts once, at its anchor).
Buildings(g) == {cell \in Cells : g[cell].type # "grass"}

FlippedTiles(g) == {cell \in Cells : g[cell].isFlipped}

PhaserInit ==
    /\ grid = FreshScene.grid
    /\ money = FreshScene.money
    /\ population = FreshScene.population
    /\ happiness = FreshScene.happiness
    /\ costs = FreshScene.costs
    /\ previewFlipped = FALSE
    /\ saved = NoDoc
    /\ purchases = 0

\* pointerup over cell (row, col) with `type` selected: placeTile, which ends
\* in saveGame when it was not rejected.  A rejected call changes nothing.
PointerUp(row, col, type) ==
    LET out == placeTile(Scene, previewFlipped, row, col, type)
        charged == out.s.money < money
    IN  /\ variant = "phaser"
        /\ out.done
        /\ charged => purchases < MaxPurchases
        /\ Cardinality(FlippedTiles(out.s.grid)) <= MaxFlipped
        /\ SetScene(out.s)
        /\ saved' = <<saveGame(out.s)>>
        /\ purchases' = IF charged THEN purchases + 1 ELSE purchases
        /\ UNCHANGED <<previewFlipped, variant, ivars, rvars, cvars, dvars,
                   avars>>

\* pointerdown with the right button: flip the preview
RightClick ==
    /\ variant = "phaser"
    /\ previewFlipped' = ~previewFlipped
    /\ UNCHANGED <<grid, money, population, happiness, costs, saved, purchases>>
    /\ UNCHANGED <<variant, ivars, rvars, cvars, dvars,
                   avars>>

\* update(time, delta) reaching the tick interval n times in a row: n calls
\* of handleTick with nothing else in between.
Tick(n) ==
    /\ variant = "phaser"
    /\ calculateIncome(Scene) > 0
    /\ money + n * calculateIncome(Scene) <= MaxMoney
    /\ SetScene(handleTicks(Scene, n))
    /\ UNCHANGED <<previewFlipped, saved, purchases, variant, ivars, rvars, cvars, dvars,
                   avars>>

(***************************************************************************)
(* Draw order (GridManager.updateDepths).  An entry of container.list is   *)
(* a Tile or the preview image: gridRow/gridCol (placed = FALSE while the  *)
(* preview has none), the texture key and the isPreview mark.              *)
(***************************************************************************)
Entry(row, col, placed, type, isPreview) ==
    [gridRow |-> row, gridCol |-> col, placed |-> placed, type |-> type,
     isPreview |-> isPreview]

\* a.gridRow ?? 999, a.gridCol ?? 999
rowOf(a) == IF a.placed THEN a.gridRow ELSE 999
colOf(a) == IF a.placed THEN a.gridCol ELSE 999

\* depthA: row + col, + size - 1 for a multi-tile kind, + 0.1 off grass
depthAdjusted(sum, size) == IF size > 1 THEN sum + size - 1 ELSE sum

depthOf(a) ==
    IF a.type # "grass"
    THEN FAdd(FInt(depthAdjusted(rowOf(a) + colOf(a), getBuildingConfig(a.type).size)), F0_1)
    ELSE FInt(depthAdjusted(rowOf(a) + colOf(a), getBuildingConfig(a.type).size))

\* A comparator without the secondary sort by row (not the program's).
compareKeyed_NoRow(a, b, diff) ==
    IF FAbsAbove0_01(diff) THEN FSign(diff)
    ELSE IF a.isPreview THEN 1
    ELSE IF b.isPreview THEN -1
    ELSE 0

\* The sign of the comparator's result, diff being depthA - depthB
compareKeyed(a, b, diff) ==
    IF FAbsAbove0_01(diff) THEN FSign(diff)
    ELSE IF rowOf(a) # rowOf(b) THEN (IF rowOf(a) < rowOf(b) THEN -1 ELSE 1)
    ELSE IF a.isPreview THEN 1
    ELSE IF b.isPreview THEN -1
    ELSE 0

\* The sign of the sort comparator (a, b) => ... of updateDepths
compareDepth(a, b) == compareKeyed(a, b, FSub(depthOf(a), depthOf(b)))

\* container.list with the preview image pv: entry i < GridSize^2 is the
\* Tile of cell <<i \div GridSize, i % GridSize>>, the last entry is pv.
ListIds == 0..(GridSize * GridSize)

containerList(g, pv) ==
    [i \in ListIds |->
        IF i = GridSize * GridSize THEN pv
        ELSE Entry(i \div GridSize, i % GridSize, TRUE,
                   g[<<i \div GridSize, i % GridSize>>].type, FALSE)]

\* The comparator's sign for every two entries of list
compareAll(list) ==
    [i \in DOMAIN list |-> [j \in DOMAIN list |-> compareDepth(list[i], list[j])]]

\* The player fills the grid in reading order: pointerup with `type` selected
\* over the first cell that is free ground.
FreeCells(g) == {cell \in Cells : ~isOccupied(g[cell])}

NextFree(g) ==
    CHOOSE cell \in FreeCells(g) :
        \A other \in FreeCells(g) :
            cell[1] * GridSize + cell[2] <= other[1] * GridSize + other[2]

BuildNext(type) ==
    /\ variant = "phaser"
    /\ FreeCells(grid) # {}
    /\ purchases < MaxBuilds
    /\ \E out \in {placeTile(Scene, previewFlipped, NextFree(grid)[1],
                              NextFree(grid)[2], type)} :
            /\ out.done
            /\ SetScene(out.s)
            /\ saved' = <<saveGame(out.s)>>
    /\ purchases' = purchases + 1
    /\ UNCHANGED <<previewFlipped, variant, ivars, rvars, cvars, dvars,
                   avars>>

\* AudioManager.init() up to its `await Tone.start()`: the call returns at
\* once when the manager is initialized and is suspended otherwise.
\* startMusic() does not wait for it.
startMusic ==
    /\ awaiting' = IF initialized THEN awaiting ELSE awaiting + 1
    /\ UNCHANGED <<initialized, soundInitialized, created, playerLoaded,
                   listeners>>

\* The first pointerdown of the scene: the once-listener of create() starts
\* the music and the tick clock.
PointerDown ==
    /\ variant = "phaser"
    /\ ~pointerSeen
    /\ pointerSeen' = TRUE
    /\ startMusic
    /\ lastTickTime' = now
    /\ UNCHANGED <<pvars, variant, ivars, rvars, now, ticks, dvars>>

tickInterval == 5000

\* A test that does not wait for the first pointerdown (not the program's).
tickDue_NoStart(last, time) == time - last >= tickInterval

\* update(time, delta): does this call reach the tick?
tickDue(last, time) == last # 0 /\ time - last >= tickInterval

\* One frame: the scene clock advances by delta and update(time, delta) runs.
Update(delta) ==
    /\ variant = "phaser"
    /\ now + delta <= MaxTime
    /\ now' = now + delta
    /\ IF tickDue(lastTickTime, now')
       THEN /\ SetScene(handleTick(Scene))
            /\ lastTickTime' = now'
            /\ ticks' = ticks + 1
       ELSE UNCHANGED <<grid, money, population, happiness, costs,
                        lastTickTime, ticks>>
    /\ UNCHANGED <<previewFlipped, saved, purchases, pointerSeen, variant, ivars, rvars,
                    dvars, avars>>

\* Frame lengths the model follows (ms).
FrameSteps == {1000, 2500, 5000}

(***************************************************************************)
(* The pointer handlers of create() (GameScene.js:117-188), event by       *)
(* event.  No game object of the scene is interactive, so currentlyOver is *)
(* empty; isPanningUI is never assigned, so !this.isPanningUI holds.  The  *)
(* container's pan and the preview image are not part of the state: the    *)
(* cell worldToGrid finds under the pointer is an input of pointerup.      *)
(***************************************************************************)
\* Positions the pointer visits (px): (6, 8) is exactly 10 px from (0, 0),
\* (20, 0) is more than 10 px from both.
PointerPositions == {<<0, 0>>, <<6, 8>>, <<20, 0>>}

\* Phaser.Math.Distance.Between(p, q) > 10
distAbove10(p, q) ==
    (p[1] - q[1]) * (p[1] - q[1]) + (p[2] - q[2]) * (p[2] - q[2]) > 10 * 10

\* A mouse button goes down: the once-listener on the first event, then the
\* pointerdown handler.  pointer.rightButtonDown() tells whether the right
\* button is among the buttons held.
MouseDown(button) ==
    /\ variant = "phaser"
    /\ button \notin buttons
    /\ buttons' = buttons \cup {button}
    /\ pointerSeen' = TRUE
    /\ lastTickTime' = IF pointerSeen THEN lastTickTime ELSE now
    /\ IF pointerSeen THEN UNCHANGED avars ELSE startMusic
    /\ IF 2 \in buttons'
       THEN /\ previewFlipped' = ~previewFlipped
            /\ UNCHANGED <<isDragging, dragStart>>
       ELSE /\ isDragging' = FALSE
            /\ dragStart' = pointer
            /\ UNCHANGED previewFlipped
    /\ pressAt' = pointer
    /\ strayed' = FALSE
    /\ UNCHANGED <<grid, money, population, happiness, costs, saved, purchases>>
    /\ UNCHANGED <<variant, ivars, rvars, now, ticks, pointer, upPlaced>>

\* The pointer moves to `to`: the panning part of the pointermove handler
\* (pointer.isDown: some button is held).
MouseMove(to) ==
    /\ variant = "phaser"
    /\ to # pointer
    /\ pointer' = to
    /\ isDragging' = (isDragging \/ (buttons # {} /\ distAbove10(dragStart, to)))
    /\ strayed' = (strayed \/ (buttons # {} /\ distAbove10(pressAt, to)))
    /\ UNCHANGED <<pvars, variant, ivars, rvars, cvars, dragStart, buttons, pressAt,
                   upPlaced, avars>>

\* A mouse button goes up over cell `target` (outside the grid when it is
\* no valid coordinate) with `type` selected: the pointerup handler.
MouseUp(button, target, type) ==
    /\ variant = "phaser"
    /\ button \in buttons
    /\ buttons' = buttons \ {button}
    /\ IF button = 0 /\ ~isDragging /\ isValidCoord(target[1], target[2])
       THEN \E out \in {placeTile(Scene, previewFlipped, target[1], target[2], type)} :
                /\ SetScene(out.s)
                /\ saved' = IF out.done THEN <<saveGame(out.s)>> ELSE saved
                /\ purchases' = IF out.s.money < money THEN purchases + 1
                                ELSE purchases
                /\ upPlaced' = TRUE
       ELSE /\ UNCHANGED <<grid, money, population, happiness, costs, saved,
                           purchases>>
            /\ upPlaced' = FALSE
    /\ isDragging' = FALSE
    /\ UNCHANGED <<previewFlipped, variant, ivars, rvars, cvars, dragStart, pointer,
                   pressAt, strayed, avars>>

\* The cells a button is released over: two cells of the grid and a place
\* beside the grid.
ReleaseTargets == {<<0, 0>>, <<1, 1>>, <<-1, 0>>}

\* The page is loaded again: constructor, create(), loadGame().
Reload ==
    /\ variant = "phaser"
    /\ SetScene(IF saved = NoDoc THEN FreshScene ELSE loadGame(FreshScene, saved[1]))
    /\ previewFlipped' = FALSE
    /\ UNCHANGED <<saved, purchases, variant, ivars, rvars, cvars, dvars,
                   avars>>

\* The cells the player clicks: a corner, the cell diagonal to it (where a
\* structure anchored at the corner has a member cell, and where a structure
\* still fits) and the far corner (where a structure does not fit).
ClickCells == {<<0, 0>>, <<1, 1>>, <<GridSize - 1, GridSize - 1>>}

(***************************************************************************)
(* The React game (src/app/page.tsx).                                      *)
(***************************************************************************)
STARTING_MONEY == 100000

TOOLS ==
    [house      |-> [cost |-> 100, size |-> 1],
     park       |-> [cost |-> 300, size |-> 2],
     shop       |-> [cost |-> 400, size |-> 2],
     market     |-> [cost |-> 1200, size |-> 3],
     university |-> [cost |-> 3000, size |-> 4],
     bulldoze   |-> [cost |-> 5, size |-> 1]]

ToolTypes == DOMAIN TOOLS

NoParent == <<>>     \* parentX, parentY undefined

\* { building: 'grass', occupied: false }
GrassTile == [building |-> "grass", occupied |-> FALSE, parent |-> NoParent]

createEmptyGrid == [cell \in Cells |-> GrassTile]

\* canPlace(x, y, size) over the grid g the callback closed over
canPlace(g, x, y, size) ==
    \A dy \in 0..(size - 1), dx \in 0..(size - 1) :
        LET tx == x + dx
            ty == y + dy
        IN  IF tx >= GridSize \/ ty >= GridSize THEN FALSE
            ELSE ~(g[<<ty, tx>>].building # "grass" \/ g[<<ty, tx>>].occupied)

\* The updater handleClick passes to setGrid when it bulldozes
bulldozeGrid(g, parentX, parentY) ==
    [cell \in Cells |->
        IF g[cell].parent = <<parentX, parentY>> \/ cell = <<parentY, parentX>>
        THEN GrassTile ELSE g[cell]]

\* The updater handleClick passes to setGrid when it places
placeGrid(g, gridX, gridY, type, size) ==
    [cell \in Cells |->
        IF cell = <<gridY, gridX>>
        THEN [building |-> type, occupied |-> FALSE, parent |-> NoParent]
        ELSE IF cell[1] \in gridY..(gridY + size - 1)
                /\ cell[2] \in gridX..(gridX + size - 1)
        THEN [building |-> "grass", occupied |-> TRUE, parent |-> <<gridX, gridY>>]
        ELSE g[cell]]

\* handleClick after `await initSound()`.  h holds what the handler closed
\* over when it was created (tool, grid and money of that render) and the
\* cell clicked; st = [grid, money] is the state the updaters apply to.
handleClick(h, st) ==
    LET tool == TOOLS[h.tool]
        tile == h.grid[<<h.y, h.x>>]
        parentX == IF tile.parent # NoParent THEN tile.parent[1] ELSE h.x
        parentY == IF tile.parent # NoParent THEN tile.parent[2] ELSE h.y
        parentTile == h.grid[<<parentY, parentX>>]
    IN  IF h.tool = "bulldoze"
        THEN IF parentTile.building # "grass" /\ parentTile.building # "empty"
                /\ h.money >= tool.cost
             THEN [grid |-> bulldozeGrid(st.grid, parentX, parentY),
                   money |-> st.money - tool.cost]
             ELSE st
        ELSE IF canPlace(h.grid, h.x, h.y, tool.size) /\ h.money >= tool.cost
             THEN [grid |-> placeGrid(st.grid, h.x, h.y, h.tool, tool.size),
                   money |-> st.money - tool.cost]
             ELSE st

\* A balance the game reaches with an empty grid: 82 rounds of placing a
\* market and bulldozing it, then a shop and a park placed and bulldozed.  It
\* pays for one shop and then no longer for a house.
LowBalance ==
    STARTING_MONEY - 82 * (TOOLS["market"].cost + TOOLS["bulldoze"].cost)
                   - (TOOLS["shop"].cost + TOOLS["bulldoze"].cost)
                   - (TOOLS["park"].cost + TOOLS["bulldoze"].cost)

ReactInit ==
    /\ rgrid = createEmptyGrid
    /\ rmoney \in {STARTING_MONEY, LowBalance}
    /\ pending = <<>>
    /\ rclicks = 0

\* Where a call of initSound() stands when it first gives up control: it
\* called nothing ("none", soundInitialized holds), soundManager.init()
\* returned at once ("returned", the manager is initialized) or init is
\* suspended at `await Tone.start()` ("awaiting").
initSound ==
    IF soundInitialized THEN "none"
    ELSE IF initialized THEN "returned"
    ELSE "awaiting"

\* The rest of initSound() once control comes back: init, if it was
\* suspended, creates the synths and sets its flag; then
\* setSoundInitialized(true), unless nothing was called.
initSoundResumed(init) ==
    /\ created' = IF init = "awaiting" THEN created + 1 ELSE created
    /\ initialized' = (initialized \/ init = "awaiting")
    /\ soundInitialized' = (soundInitialized \/ init # "none")

\* A click on cell (x, y) with `tool` selected: the handler starts and
\* suspends at `await initSound()`, holding the state of the current render.
Click(x, y, tool) ==
    /\ variant = "react"
    /\ rclicks < MaxClicks
    /\ Len(pending) < MaxPending
    /\ pending' = Append(pending,
                         [x |-> x, y |-> y, tool |-> tool,
                          grid |-> rgrid, money |-> rmoney,
                          init |-> initSound])
    /\ rclicks' = rclicks + 1
    /\ UNCHANGED <<rgrid, rmoney, variant, ivars, pvars, cvars, dvars, avars>>

\* The oldest suspended handler resumes and runs to its end.
Resume ==
    /\ variant = "react"
    /\ pending # <<>>
    /\ LET st == handleClick(Head(pending), [grid |-> rgrid, money |-> rmoney])
       IN  /\ rgrid' = st.grid
           /\ rmoney' = st.money
    /\ pending' = Tail(pending)
    /\ initSoundResumed(Head(pending).init)
    /\ UNCHANGED <<rclicks, variant, ivars, pvars, cvars, dvars, awaiting, playerLoaded,
                   listeners>>

\* The clicks the model follows: an anchor position, a cell where a second
\* building overlaps the first, and the far corner; one tool of each footprint
\* size that fits the grid, and the bulldozer.
ReactClickCells == {<<0, 0>>, <<1, 1>>, <<GridSize - 1, GridSize - 1>>}

ReactClickTools == {"house", "shop", "market", "bulldoze"}

ClockInit ==
    /\ now = 0
    /\ lastTickTime = 0
    /\ pointerSeen = FALSE
    /\ ticks = 0

(***************************************************************************)
(* The sound (AudioManager.js, SoundManager in page.tsx).                  *)
(***************************************************************************)
\* React: handleMouseDown calls initSound() and does not wait for it.
MouseDownSound ==
    /\ variant = "react"
    /\ awaiting < MaxAwaiting
    /\ awaiting' = IF initSound = "awaiting" THEN awaiting + 1 ELSE awaiting
    /\ soundInitialized' = (soundInitialized \/ initSound = "returned")
    /\ UNCHANGED <<initialized, created, playerLoaded, listeners>>
    /\ UNCHANGED <<variant, ivars, pvars, rvars, cvars, dvars>>

\* Tone.start() resolves for an init call no handler waits for: the rest of
\* init runs.  React: the synths are created, then initSound sets its state.
\* Phaser: the player is started if the file is loaded, else a callback is
\* registered for its 'load'.
ToneStarted ==
    /\ awaiting > 0
    /\ awaiting' = awaiting - 1
    /\ initialized' = TRUE
    /\ IF variant = "react"
       THEN /\ created' = created + 1
            /\ soundInitialized' = TRUE
            /\ UNCHANGED <<playerLoaded, listeners>>
       ELSE /\ IF playerLoaded
               THEN created' = created + 1 /\ UNCHANGED listeners
               ELSE listeners' = listeners + 1 /\ UNCHANGED created
            /\ UNCHANGED <<soundInitialized, playerLoaded>>
    /\ UNCHANGED <<variant, ivars, pvars, rvars, cvars, dvars>>

\* Phaser: the music file arrives; every callback registered for 'load'
\* starts the player.
PlayerLoaded ==
    /\ variant = "phaser"
    /\ ~playerLoaded
    /\ playerLoaded' = TRUE
    /\ created' = created + listeners
    /\ UNCHANGED <<initialized, soundInitialized, awaiting, listeners>>
    /\ UNCHANGED <<variant, ivars, pvars, rvars, cvars, dvars>>

\* Both sound managers start uninitialized; the music file is not loaded yet.
AudioInit ==
    /\ initialized = FALSE
    /\ soundInitialized = FALSE
    /\ awaiting = 0
    /\ created = 0
    /\ playerLoaded = FALSE
    /\ listeners = 0

\* The constructor's isDragging = false, dragStartX = dragStartY = 0, and a
\* pointer that has not moved yet.
DragInit ==
    /\ isDragging = FALSE
    /\ dragStart = <<0, 0>>
    /\ pointer = <<0, 0>>
    /\ buttons = {}
    /\ pressAt = <<0, 0>>
    /\ strayed = FALSE
    /\ upPlaced = FALSE

(***************************************************************************)
(* The isometric conversions (IsoUtils.js; gridToScreen and screenToGrid   *)
(* of page.tsx).  The tile sizes are even integers and the offsets are     *)
(* integers, so every position gridToWorld or gridToScreen returns is an   *)
(* integer far below 2^53 and a multiple of the half tile on the way back: *)
(* the doubles' products, differences, sums and quotients are exact on     *)
(* them, and Math.floor is the floor of the exact quotient.                *)
(***************************************************************************)
TILE_WIDTH == 64

TILE_HEIGHT == 32

\* Config.js is not among the sources: the conversions are followed for each
\* of these <<tileWidth, tileHeight>>.
TileSizes == {<<64, 32>>, <<128, 64>>, <<100, 50>>, <<62, 30>>}

\* offsetX = canvas.width / 2 + camera.x, offsetY = 100 + camera.y.
Offsets == {<<0, 0>>, <<400, 100>>, <<-37, 113>>, <<1, -1>>}

\* Math.floor(a / b) for integers a and b > 0.
floorDiv(a, b) == a \div b

\* IsoUtils.gridToWorld(row, col)
gridToWorld(row, col) ==
    <<(col - row) * (tileWidth \div 2), (col + row) * (tileHeight \div 2)>>

\* The inverse with the two differences exchanged (not the program's
\* behaviour).
worldToGrid_Swapped(worldX, worldY) ==
    [row |-> floorDiv(worldX * (tileHeight \div 2) + worldY * (tileWidth \div 2),
                      2 * (tileWidth \div 2) * (tileHeight \div 2)),
     col |-> floorDiv(worldY * (tileWidth \div 2) - worldX * (tileHeight \div 2),
                      2 * (tileWidth \div 2) * (tileHeight \div 2))]

\* IsoUtils.worldToGrid(worldX, worldY):
\*   col = (worldX / halfWidth + worldY / halfHeight) / 2
\*   row = (worldY / halfHeight - worldX / halfWidth) / 2
\* brought to the common denominator 2 * halfWidth * halfHeight, then floored.
worldToGrid(worldX, worldY) ==
    [row |-> floorDiv(worldY * (tileWidth \div 2) - worldX * (tileHeight \div 2),
                      2 * (tileWidth \div 2) * (tileHeight \div 2)),
     col |-> floorDiv(worldX * (tileHeight \div 2) + worldY * (tileWidth \div 2),
                      2 * (tileWidth \div 2) * (tileHeight \div 2))]

\* gridToScreen(x, y, offsetX, offsetY)
gridToScreen(x, y, ox, oy) ==
    <<(x - y) * (TILE_WIDTH \div 2) + ox, (x + y) * (TILE_HEIGHT \div 2) + oy>>

\* screenToGrid(screenX, screenY, offsetX, offsetY)
screenToGrid(screenX, screenY, ox, oy) ==
    [gridX |-> floorDiv((screenX - ox) * (TILE_HEIGHT \div 2)
                            + (screenY - oy) * (TILE_WIDTH \div 2),
                        2 * (TILE_WIDTH \div 2) * (TILE_HEIGHT \div 2)),
     gridY |-> floorDiv((screenY - oy) * (TILE_WIDTH \div 2)
                            - (screenX - ox) * (TILE_HEIGHT \div 2),
                        2 * (TILE_WIDTH \div 2) * (TILE_HEIGHT \div 2))]

\* A cell is given its position: gridToWorld(row, col) in the Phaser game
\* (cell = <<row, col>>), gridToScreen(x, y, offsetX, offsetY) in the React
\* game (cell = <<x, y>>).
ConvertToWorld(cell) ==
    /\ lastCell' = cell
    /\ lastWorld' = IF variant = "phaser"
                    THEN gridToWorld(cell[1], cell[2])
                    ELSE gridToScreen(cell[1], cell[2], offsetX, offsetY)
    /\ isoStep' = "world"
    /\ UNCHANGED <<variant, pvars, rvars, cvars, dvars, avars, tileWidth,
                   tileHeight, offsetX, offsetY, lastGrid>>

\* The position is converted back: worldToGrid in the Phaser game,
\* screenToGrid in the React game.
ConvertToGrid ==
    /\ isoStep = "world"
    /\ lastGrid' = IF variant = "phaser"
                   THEN <<worldToGrid(lastWorld[1], lastWorld[2]).row,
                          worldToGrid(lastWorld[1], lastWorld[2]).col>>
                   ELSE <<screenToGrid(lastWorld[1], lastWorld[2],
                                       offsetX, offsetY).gridX,
                          screenToGrid(lastWorld[1], lastWorld[2],
                                       offsetX, offsetY).gridY>>
    /\ isoStep' = "grid"
    /\ UNCHANGED <<variant, pvars, rvars, cvars, dvars, avars, tileWidth,
                   tileHeight, offsetX, offsetY, lastCell, lastWorld>>

\* Nothing converted yet.
IsoIdle ==
    /\ isoStep = "idle"
    /\ lastCell = <<0, 0>>
    /\ lastWorld = <<0, 0>>
    /\ lastGrid = <<0, 0>>

\* The specifications that do not follow the conversions keep one tile size
\* and one offset.
IsoRest ==
    /\ tileWidth = TILE_WIDTH
    /\ tileHeight = TILE_HEIGHT
    /\ offsetX = 0
    /\ offsetY = 0
    /\ IsoIdle

Init ==
    /\ variant \in {"phaser", "react"}
    /\ IsoRest
    /\ PhaserInit
    /\ ReactInit
    /\ ClockInit
    /\ DragInit
    /\ AudioInit
    /\ variant = "phaser" => rmoney = STARTING_MONEY

Next ==
    \/ \E cell \in ClickCells, type \in Kinds : PointerUp(cell[1], cell[2], type)
    \/ RightClick
    \/ Tick(TickBurst)
    \/ Reload
    \/ \E cell \in ReactClickCells, tool \in ReactClickTools :
            Click(cell[1], cell[2], tool)
    \/ Resume

Spec == Init /\ [][Next]_vars

\* The Phaser game of a player who lines up shops and houses and lets the
\* timer run: long enough a row of shops for happiness to go negative.
EconomyInit == Init /\ variant = "phaser"

EconomyNext ==
    \/ \E type \in {"shop", "house"} : BuildNext(type)
    \/ Tick(TickBurst)

EconomySpec == EconomyInit /\ [][EconomyNext]_vars

\* The Phaser game frame by frame: the first pointerdown, the update calls
\* and a shop bought at the corner (so that ticks pay).
ClockNext ==
    \/ PointerDown
    \/ \E delta \in FrameSteps : Update(delta)
    \/ pointerSeen /\ PointerUp(0, 0, "shop")

ClockSpec == EconomyInit /\ [][ClockNext]_vars

\* The Phaser game pointer event by pointer event, with the shop selected.
DragNext ==
    \/ \E button \in {0, 2} : MouseDown(button)
    \/ \E to \in PointerPositions : MouseMove(to)
    \/ \E button \in {0, 2}, target \in ReleaseTargets : MouseUp(button, target, "shop")

DragSpec == EconomyInit /\ [][DragNext]_vars

\* Either game with the sound followed: the React clicks with the
\* mousedown that precedes them, the first pointerdown of the Phaser scene
\* with its frames, and the sound library and the music file answering.
AudioNext ==
    \/ MouseDownSound
    \/ \E cell \in ReactClickCells, tool \in ReactClickTools :
            Click(cell[1], cell[2], tool)
    \/ Resume
    \/ PointerDown
    \/ \E delta \in FrameSteps : Update(delta)
    \/ ToneStarted
    \/ PlayerLoaded

AudioSpec == Init /\ [][AudioNext]_vars

\* Either game with nothing but the conversions: each tile size (Phaser) or
\* offset (React), each cell of the grid converted to its position and back.
IsoInit ==
    /\ variant \in {"phaser", "react"}
    /\ PhaserInit
    /\ ReactInit
    /\ ClockInit
    /\ DragInit
    /\ AudioInit
    /\ variant = "phaser" => rmoney = STARTING_MONEY
    /\ \E size \in (IF variant = "phaser" THEN TileSizes
                     ELSE {<<TILE_WIDTH, TILE_HEIGHT>>}) :
            tileWidth = size[1] /\ tileHeight = size[2]
    /\ \E offset \in (IF variant = "react" THEN Offsets ELSE {<<0, 0>>}) :
            offsetX = offset[1] /\ offsetY = offset[2]
    /\ IsoIdle

IsoNext ==
    \/ \E cell \in Cells : ConvertToWorld(cell)
    \/ ConvertToGrid

IsoSpec == IsoInit /\ [][IsoNext]_vars

\* The Phaser game opened on a stored document: the documents a game with
\* ample funds writes after the player has put up to two buildings on the
\* cells DrawnCells.
DrawnCells == {<<0, 0>>, <<0, 1>>, <<0, 2>>, <<1, 1>>}

AmpleScene == [FreshScene EXCEPT !.money = 100000, !.population = 1]

Built(s) ==
    {placeTile(s, FALSE, cell[1], cell[2], type).s :
        cell \in DrawnCells, type \in Kinds \ {"grass"}}

StoredDocs == {saveGame(s2) : s2 \in UNION {Built(s1) : s1 \in Built(AmpleScene)}}

DepthInit ==
    /\ variant = "phaser"
    /\ grid = FreshScene.grid
    /\ money = FreshScene.money
    /\ population = FreshScene.population
    /\ happiness = FreshScene.happiness
    /\ costs = FreshScene.costs
    /\ previewFlipped = FALSE
    /\ saved \in {<<doc>> : doc \in StoredDocs}
    /\ purchases = 0
    /\ ReactInit
    /\ rmoney = STARTING_MONEY
    /\ ClockInit
    /\ DragInit
    /\ AudioInit
    /\ IsoRest

DepthNext == Reload

DepthSpec == DepthInit /\ [][DepthNext]_vars


(***************************************************************************)
(* Footprints of the Phaser grid.                                          *)
(***************************************************************************)
\* The anchors of the multi-cell buildings standing on grid g.
Anchors(g) == {cell \in Cells : getBuildingConfig(g[cell].type).size > 1}

\* The size x size block of the building anchored at cell a of grid g.
Footprint(g, a) == Block(a[1], a[2], getBuildingConfig(g[a].type).size)

\* C1: in the Phaser variant, after any sequence of placeTile calls (any
\* kind, 'grass' included, either preview orientation), every cell of the
\* block of each multi-cell building carries a masterTile equal to the
\* building's anchor, no other cell of the block holds a building, no two
\* footprints overlap, and every footprint lies inside the grid.
C1_FootprintsIntact ==
    variant = "phaser" =>
        /\ \A a \in Anchors(grid) :
              /\ Footprint(grid, a) \subseteq Cells
              /\ \A cell \in Footprint(grid, a) \cap Cells :
                    /\ grid[cell].masterTile = a
                    /\ cell # a => grid[cell].type = "grass"
        /\ \A a, b \in Anchors(grid) :
              a # b => Footprint(grid, a) \cap Footprint(grid, b) = {}

\* C2: in the Phaser variant, removing (placing 'grass') at any cell of a
\* standing multi-cell footprint, anchor or not and whatever the preview
\* orientation, returns every cell of that footprint to empty ground.
C2_RemovalClearsFootprint ==
    variant = "phaser" =>
        \A a \in Anchors(grid) :
            (\A cell \in Footprint(grid, a) : cell \in Cells /\ grid[cell].masterTile = a)
            => \A at \in Footprint(grid, a), flipped \in BOOLEAN :
                  LET after == placeTile(Scene, flipped, at[1], at[2], "grass").s.grid
                  IN  \A cell \in Footprint(grid, a) :
                          /\ after[cell].type = "grass"
                          /\ after[cell].masterTile = NoMaster


(***************************************************************************)
(* Successful placements.                                                  *)
(***************************************************************************)
\* The anchor a Phaser cell resolves to: its masterTile, or itself.
ResolveAnchor(g, cell) ==
    IF g[cell].masterTile # NoMaster THEN g[cell].masterTile ELSE cell

\* The anchor (x, y) a React cell resolves to: parentX/parentY, or itself.
ResolveParent(g, cell) ==
    IF g[cell].parent # NoParent THEN g[cell].parent ELSE <<cell[2], cell[1]>>

\* A React cell another placement may not cover (what canPlace refuses).
Unavailable(t) == t.building # "grass" \/ t.occupied

\* The handler at the head of the queue places (it is not the bulldozer and
\* its checks pass on what it captured).
HeadPlaces ==
    /\ variant = "react" /\ pending # <<>>
    /\ Head(pending).tool # "bulldoze"
    /\ canPlace(Head(pending).grid, Head(pending).x, Head(pending).y,
                TOOLS[Head(pending).tool].size)
    /\ Head(pending).money >= TOOLS[Head(pending).tool].cost

\* The state the handler at the head of the queue leaves.
HeadResult == handleClick(Head(pending), [grid |-> rgrid, money |-> rmoney])

\* C3: after every successful placement of a kind of size N at an anchor, by
\* the Phaser placeTile and by the React handleClick, all N x N covered cells
\* are non-empty (unavailable to another placement) and all resolve to that
\* anchor.  Stated over every call the player can make next: any cell, any
\* kind, the preview as it is now oriented.
C3_PlacementCoversBlock ==
    /\ variant = "phaser" =>
          \A cell \in Cells, type \in Kinds \ {"grass"} :
              LET out == placeTile(Scene, previewFlipped, cell[1], cell[2], type)
              IN  out.done =>
                    \A m \in Block(cell[1], cell[2], getBuildingConfig(type).size) :
                        /\ m \in Cells
                        /\ isOccupied(out.s.grid[m])
                        /\ ResolveAnchor(out.s.grid, m) = cell
    /\ HeadPlaces =>
          LET h == Head(pending)
          IN  \A m \in Block(h.y, h.x, TOOLS[h.tool].size) :
                  /\ m \in Cells
                  /\ Unavailable(HeadResult.grid[m])
                  /\ ResolveParent(HeadResult.grid, m) = <<h.x, h.y>>

\* A university has been placed: its 2 x 2 block stands on the Phaser grid.
C3_UniversityStands ==
    /\ variant = "phaser"
    /\ \E a \in Cells :
          /\ grid[a].type = "university"
          /\ \A m \in Block(a[1], a[2], 2) :
                m \in Cells /\ isOccupied(grid[m]) /\ ResolveAnchor(grid, m) = a


(***************************************************************************)
(* Rejected placements.                                                    *)
(***************************************************************************)
\* The handler at the head of the queue holds a building tool.
HeadBuilds == variant = "react" /\ pending # <<>> /\ Head(pending).tool # "bulldoze"

\* The React state as the updaters see it.
ReactState == [grid |-> rgrid, money |-> rmoney]

\* C4: a placement whose N x N footprint is not fully inside the grid, or
\* covers at least one non-empty cell (a building or a member cell of another
\* footprint), is rejected and leaves the grid, balance, population, happiness
\* and per-kind costs exactly as they were.  The Phaser half is read with the
\* exception the placement engine documents (re-placing a size-1 kind on a
\* cell that already holds that kind is a re-orientation, not a new
\* placement); the React half is the claim as it stands.
C4_BlockedPlacementRejected ==
    /\ variant = "phaser" =>
          \A cell \in Cells, type \in Kinds \ {"grass"}, flipped \in BOOLEAN :
              LET out == placeTile(Scene, flipped, cell[1], cell[2], type)
                  blk == Block(cell[1], cell[2], getBuildingConfig(type).size)
              IN  /\ \E m \in blk : m \notin Cells \/ isOccupied(grid[m])
                  /\ grid[cell].type # type
                  => ~out.done /\ out.s = Scene
    /\ HeadBuilds =>
          LET h == Head(pending)
              blk == Block(h.y, h.x, TOOLS[h.tool].size)
          IN  (\E m \in blk : m \notin Cells \/ Unavailable(rgrid[m]))
              => HeadResult = ReactState

ReactAnchors(g) == {cell \in Cells : g[cell].building # "grass"}

\* The block of the building anchored at cell a of React grid g.
ReactFootprint(g, a) == Block(a[1], a[2], TOOLS[g[a].building].size)

EmptyGround(tile) == tile.type = "grass" /\ tile.masterTile = NoMaster

\* C7: in the Phaser variant a successful placement of kind K on empty ground
\* lowers the balance by exactly costs[K] as it stood at the call, changes
\* population and happiness by exactly K's catalog deltas, and changes no
\* other kind's cost.  Stated over every call the player can make next.
C7_PlacementCharges ==
    variant = "phaser" =>
        \A cell \in Cells, type \in Kinds \ {"grass"} :
            LET out == placeTile(Scene, previewFlipped, cell[1], cell[2], type)
                config == getBuildingConfig(type)
            IN  EmptyGround(grid[cell]) /\ out.done =>
                  /\ out.s.money = money - costs[type]
                  /\ out.s.population = population + config.population
                  /\ out.s.happiness = FAdd(happiness, config.happiness)
                  /\ \A k \in Kinds \ {type} : out.s.costs[k] = costs[k]

\* The first purchase of a new game was a shop: 40 paid, happiness down by
\* 0.1, the shop's price raised, every other price as in the catalog.
C7_ShopBought ==
    /\ variant = "phaser" /\ purchases = 1
    /\ \E cell \in Cells : grid[cell].type = "shop"
    /\ money = 100 - BuildingRegistry["shop"].cost
    /\ happiness = FAdd(F1_0, BuildingRegistry["shop"].happiness)
    /\ costs["shop"] > BuildingRegistry["shop"].cost
    /\ \A k \in Kinds \ {"shop"} : costs[k] = BuildingRegistry[k].cost

\* C8: in the Phaser variant, placing any kind K on empty ground and then
\* removing that building returns every covered cell to empty ground and
\* population and happiness to their values before the placement, and the
\* removal does not increase the balance.
C8_PlaceThenRemove ==
    variant = "phaser" =>
        \A cell \in Cells, type \in Kinds \ {"grass"}, f1, f2 \in BOOLEAN :
            LET placed == placeTile(Scene, f1, cell[1], cell[2], type)
                removed == placeTile(placed.s, f2, cell[1], cell[2], "grass")
            IN  EmptyGround(grid[cell]) /\ placed.done =>
                  /\ \A m \in Block(cell[1], cell[2], getBuildingConfig(type).size) :
                        EmptyGround(removed.s.grid[m])
                  /\ removed.s.population = population
                  /\ removed.s.happiness = happiness
                  /\ removed.s.money <= placed.s.money

\* C9: in the Phaser variant, after every operation that changes the balance,
\* population, happiness, per-kind costs or grid (placement, removal,
\* re-orientation, economy tick) the persisted document equals the in-memory
\* state: at every moment either nothing has been saved and nothing has
\* changed, or the document is what saveGame would write now.
C9_SavedIsCurrent ==
    variant = "phaser" =>
        \/ saved = NoDoc /\ Scene = FreshScene
        \/ saved = <<saveGame(Scene)>>

\* C10: in the Phaser variant, for every reachable state, saveGame followed
\* by loadGame reproduces the balance, population, happiness, per-kind costs
\* and, for every cell, the kind, orientation flag, anchor reference and
\* is-anchor flag.
C10_SaveLoadRoundTrip ==
    variant = "phaser" =>
        LET loaded == loadGame(FreshScene, saveGame(Scene))
        IN  /\ loaded.money = money
            /\ loaded.population = population
            /\ loaded.happiness = happiness
            /\ loaded.costs = costs
            /\ \A cell \in Cells :
                  /\ loaded.grid[cell].type = grid[cell].type
                  /\ loaded.grid[cell].isFlipped = grid[cell].isFlipped
                  /\ loaded.grid[cell].masterTile = grid[cell].masterTile
                  /\ loaded.grid[cell].isMaster = grid[cell].isMaster

\* A state worth saving: a flipped university with its block, a flipped
\* size-1 cell, prices and balance off their defaults, happiness off 1.0.
C10_RichState ==
    /\ variant = "phaser"
    /\ \E a \in Cells : grid[a].type = "university" /\ grid[a].isMaster /\ grid[a].isFlipped
    /\ \E m \in Cells : grid[m].masterTile # NoMaster /\ ~grid[m].isMaster
    /\ \E c \in Cells : grid[c].masterTile = NoMaster /\ grid[c].isFlipped
    /\ money # 100 /\ happiness # F1_0 /\ costs # FreshScene.costs

(***************************************************************************)
(* C11: malformed persisted documents.                                     *)
(***************************************************************************)
\* The document doc with the rows from keep on missing from its grid.
TruncatedGrid(doc, keep) ==
    [doc EXCEPT !.grid = [cell \in {c \in Cells : c[1] < keep} |-> doc.grid[cell]]]

\* The document doc without its grid field.
WithoutGrid(doc) ==
    [f \in (DOMAIN doc) \ {"grid"} |-> doc[f]]

\* Malformed documents: a text that does not parse, and the parseable
\* ill-shaped variants of a document the game wrote.
MalformedDocs(doc) ==
    {Unparseable, WithoutGrid(doc)}
        \cup {TruncatedGrid(doc, keep) : keep \in 0..(GridSize - 1)}

\* C11: in the Phaser variant, for every malformed persisted document
\* (unparseable, or parseable with missing or ill-shaped fields such as a
\* grid with missing rows), loadGame ends with the complete all-grass grid
\* and the default economy: nothing of the document is kept and the grid is
\* never left partially built.
C11_MalformedDiscarded ==
    (variant = "phaser" /\ saved # NoDoc) =>
        \A bad \in MalformedDocs(saved[1]) :
            loadGame(FreshScene, bad) = FreshScene

(***************************************************************************)
(* C12, C13: the economy tick.                                             *)
(***************************************************************************)
\* C12: in the Phaser variant, on every economy tick in every reachable
\* economy state, the balance after the tick equals the balance before the
\* tick plus the income calculateIncome returns for that state.
C12_TickAddsIncome ==
    variant = "phaser" =>
        handleTick(Scene).money = money + calculateIncome(Scene)

\* C13: in the Phaser variant an economy tick changes nothing but the
\* balance: population, happiness, the per-kind costs and the grid are
\* unchanged, so two consecutive ticks with no placement or removal between
\* them add the same amount.
C13_TickChangesBalanceOnly ==
    variant = "phaser" =>
        \E once \in {handleTick(Scene)} :
            /\ once.grid = grid
            /\ once.population = population
            /\ once.happiness = happiness
            /\ once.costs = costs
            /\ handleTick(once).money - once.money = once.money - money

\* Ticks have paid: the balance is above the one last saved by a placement.
C13_TicksPaid ==
    /\ variant = "phaser"
    /\ saved # NoDoc
    /\ money > saved[1].money
    /\ calculateIncome(Scene) > 0

(***************************************************************************)
(* C14: the draw order.                                                    *)
(***************************************************************************)
\* The preview image: not yet moved over the grid, or over a cell of
\* HoverCells, with any kind selected.
HoverCells == {<<0, 0>>, <<0, 1>>, <<1, 1>>}

PreviewEntries ==
    {Entry(0, 0, FALSE, type, TRUE) : type \in Kinds}
        \cup {Entry(cell[1], cell[2], TRUE, type, TRUE) :
                    cell \in HoverCells, type \in Kinds}

\* sign[i][j] is the comparator's sign for entries i and j, key[i] the depth
\* key of entry i: the comparator decides every two distinct entries, the
\* same both ways round, it is transitive, and it follows the key.
StrictTotalOrder(sign, key) ==
    /\ \A i, j \in DOMAIN sign :
          i # j => sign[i][j] # 0 /\ sign[i][j] = -sign[j][i]
    /\ \A i, j \in DOMAIN sign :
          sign[i][j] < 0 =>
              \A k \in DOMAIN sign : sign[j][k] < 0 => sign[i][k] < 0
    /\ \A i, j \in DOMAIN sign :
          FLess(key[i], key[j]) => sign[i][j] < 0

\* C14: in the Phaser variant, over the tiles of any grid that satisfies the
\* footprint invariants plus the preview overlay, the comparator of
\* updateDepths (key = row + col, + size - 1 for multi-cell kinds, + 0.1 off
\* grass; then row; then preview last) is a strict total order: it is
\* antisymmetric and transitive and never returns 0 for two distinct
\* entries, so the sorted draw list does not depend on the initial order,
\* and a smaller key always precedes a larger one.
C14_DepthOrderStrict ==
    (variant = "phaser" /\ C1_FootprintsIntact) =>
        \A pv \in PreviewEntries :
            \E list \in {containerList(grid, pv)} :
                \E sign \in {compareAll(list)}, key \in {[i \in DOMAIN list |-> depthOf(list[i])]} :
                    StrictTotalOrder(sign, key)

\* A university stands with another building in its anchor's row.
C14_UniversityInARow ==
    /\ variant = "phaser"
    /\ C1_FootprintsIntact
    /\ \E a \in Anchors(grid), cell \in Cells :
          /\ grid[a].type = "university"
          /\ cell[1] = a[1] /\ cell # a
          /\ grid[cell].type # "grass"

(***************************************************************************)
(* C15: feedback of rejected placements.                                   *)
(***************************************************************************)
\* The causes, among the four failure reasons, that apply to
\* placeTile(row, col, type) in scene s (the anchor cell is in the grid).
Causes(s, row, col, type) ==
    LET config == getBuildingConfig(type)
        oldType == s.grid[<<row, col>>].type
    IN  (IF Block(row, col, config.size) \subseteq Cells THEN {} ELSE {"OutOfBounds"})
        \cup (IF /\ type # "grass"
                 /\ ~(config.size = 1 /\ oldType = type)
                 /\ \E cell \in Block(row, col, config.size) \cap Cells :
                        isOccupied(s.grid[cell])
              THEN {"Occupied"} ELSE {})
        \cup (IF oldType # type /\ s.costs[type] > 0 /\ s.money < s.costs[type]
              THEN {"InsufficientFunds"} ELSE {})
        \cup (IF /\ oldType # type /\ config.reqPopulation > 0
                 /\ s.population < config.reqPopulation
              THEN {"PrerequisiteNotMet"} ELSE {})

\* The rejected placements among the clicks on ClickCells: the feedback
\* shown and the causes that applied.
Rejections(s, flipped) ==
    {[text |-> placeTile(s, flipped, call[1][1], call[1][2], call[2]).text,
      causes |-> Causes(s, call[1][1], call[1][2], call[2])] :
        call \in {c \in ClickCells \X Kinds :
                    /\ ~placeTile(s, flipped, c[1][1], c[1][2], c[2]).done
                    /\ Causes(s, c[1][1], c[1][2], c[2]) # {}}}

\* C15: in the Phaser variant, every placeTile call rejected for an
\* out-of-bounds footprint, an occupied cell, insufficient funds or an unmet
\* prerequisite reports feedback, and the feedback tells which of the four
\* causes applied: no such rejection is silent, and two rejections with no
\* cause in common never show the same feedback.
C15_RejectionsClassified ==
    variant = "phaser" =>
        \E rejected \in {Rejections(Scene, previewFlipped)} :
            /\ \A r \in rejected : r.text # NoText
            /\ \A r1, r2 \in rejected :
                  r1.causes \cap r2.causes = {} => r1.text # r2.text

(***************************************************************************)
(* C16: the population prerequisite.                                       *)
(***************************************************************************)
\* C16: in the Phaser variant, placing a kind with a population prerequisite
\* (the university requires population >= 1) while the population is below
\* it is rejected and changes nothing, even when the balance is sufficient
\* and the footprint is free.
C16_PrerequisiteEnforced ==
    variant = "phaser" =>
        \A type \in Kinds, cell \in Cells :
            (/\ BuildingRegistry[type].reqPopulation > 0
             /\ population < BuildingRegistry[type].reqPopulation) =>
                \E out \in {placeTile(Scene, previewFlipped, cell[1], cell[2], type)} :
                    ~out.done /\ out.s = Scene

\* The university is affordable and fits on free ground, and only the
\* population is missing: the call reports the prerequisite.
C16_OnlyPopulationMissing ==
    /\ variant = "phaser"
    /\ money >= costs["university"]
    /\ population < BuildingRegistry["university"].reqPopulation
    /\ \E cell \in Cells :
          /\ Block(cell[1], cell[2], 2) \subseteq Cells
          /\ \A c \in Block(cell[1], cell[2], 2) : ~isOccupied(grid[c])
          /\ placeTile(Scene, previewFlipped, cell[1], cell[2], "university").text
                = NeedPopulationText(BuildingRegistry["university"].reqPopulation)

C18_RemovingEmptyIsNoOp ==
    /\ variant = "phaser" =>
          \A cell \in Cells, flipped \in BOOLEAN :
              ~isOccupied(grid[cell]) =>
                  placeTile(Scene, flipped, cell[1], cell[2], "grass").s = Scene
    /\ (/\ variant = "react" /\ pending # <<>>
        /\ Head(pending).tool = "bulldoze"
        /\ ~Unavailable(rgrid[<<Head(pending).y, Head(pending).x>>])) =>
          HeadResult = ReactState

C20_TicksSpaced ==
    [][/\ ticks' = ticks \/ ticks' = ticks + 1
       /\ ticks' # ticks =>
              /\ pointerSeen
              /\ now' - lastTickTime >= tickInterval
              /\ lastTickTime' = now'
       /\ (~pointerSeen /\ pointerSeen') => lastTickTime' = now'
       /\ (ticks' = ticks /\ pointerSeen' = pointerSeen) =>
              lastTickTime' = lastTickTime]_vars

\* Two ticks have fired and paid, the second one late (not on a multiple of
\* the interval after the first pointerdown).
C20_SecondTickLate ==
    /\ variant = "phaser" /\ pointerSeen
    /\ ticks = 2
    /\ lastTickTime = now
    /\ now % tickInterval # 0
    /\ saved # NoDoc /\ money > saved[1].money

(***************************************************************************)
(* C21: revenue buildings are counted once.                                *)
(***************************************************************************)
\* The buildings of a kind standing on grid g: the cells that hold the kind
\* and are their own anchor.
BuildingsOf(g, type) ==
    {cell \in Cells : g[cell].type = type /\ ResolveAnchor(g, cell) = cell}

\* The cells that belong to a building of the kind.
CoveredBy(g, type) ==
    {cell \in Cells : g[ResolveAnchor(g, cell)].type = type}

\* C21: in the Phaser variant each revenue-generating building contributes
\* to income exactly once whatever its footprint size: countTiles('shop')
\* and countTiles('market') equal the number of shop and market buildings
\* (anchors) on the grid, never the number of cells they cover.
C21_RevenueCountedOnce ==
    variant = "phaser" =>
        \A type \in {"shop", "market"} :
            /\ countTiles(grid, type) = Cardinality(BuildingsOf(grid, type))
            /\ getBuildingConfig(type).size > 1 /\ BuildingsOf(grid, type) # {}
                  => countTiles(grid, type) < Cardinality(CoveredBy(grid, type))

\* A market stands on its four cells next to a shop, and the tick pays for
\* one market and one shop.
C21_MarketAndShop ==
    /\ variant = "phaser"
    /\ \E a \in Cells :
          /\ grid[a].type = "market"
          /\ \A cell \in Block(a[1], a[2], 2) :
                cell \in Cells /\ grid[cell].masterTile = a
    /\ countTiles(grid, "market") = 1
    /\ countTiles(grid, "shop") = 1
    /\ Cardinality(CoveredBy(grid, "market")) = 4

(***************************************************************************)
(* C22: population and happiness follow the buildings on the grid.         *)
(***************************************************************************)
\* The sum of the catalog's population deltas over the buildings on grid g.
PopulationOf(g) ==
    countTiles(g, "house") * BuildingRegistry["house"].population
    + countTiles(g, "shop") * BuildingRegistry["shop"].population
    + countTiles(g, "park") * BuildingRegistry["park"].population
    + countTiles(g, "university") * BuildingRegistry["university"].population
    + countTiles(g, "market") * BuildingRegistry["market"].population

\* 1.0 plus the sum of the catalog's happiness deltas over the buildings on
\* grid g, in tenths (the real number, before any rounding).
HappinessTenthsOf(g) ==
    10 + countTiles(g, "house") * BuildingRegistry["house"].happiness[1]
       + countTiles(g, "shop") * BuildingRegistry["shop"].happiness[1]
       + countTiles(g, "park") * BuildingRegistry["park"].happiness[1]
       + countTiles(g, "university") * BuildingRegistry["university"].happiness[1]
       + countTiles(g, "market") * BuildingRegistry["market"].happiness[1]

\* C22: in the Phaser variant, in every state reachable from a fresh game
\* (no load) by placements, removals, reorientations and ticks, population
\* equals the sum of the population deltas of the buildings on the grid
\* (houses minus universities) and happiness equals 1.0 plus the sum of
\* their happiness deltas (-0.1 per shop, +0.2 per park, +0.5 per
\* university); happiness is compared up to the rounding of the additions.
C22_EconomyFollowsGrid ==
    variant = "phaser" =>
        /\ population = PopulationOf(grid)
        /\ happiness[1] = HappinessTenthsOf(grid)

(***************************************************************************)
(* C23: the balance.                                                       *)
(***************************************************************************)
\* C23: in the Phaser variant, starting from the fresh game (balance 100),
\* the balance is never negative in any state reachable by placements,
\* removals, reorientations and ticks; stated for the current state, for
\* every placeTile call the player can make next and for the next tick.
C23_BalanceNeverNegative ==
    variant = "phaser" =>
        /\ money >= 0
        /\ handleTick(Scene).money >= 0
        /\ \A cell \in Cells, type \in Kinds :
              placeTile(Scene, previewFlipped, cell[1], cell[2], type).s.money >= 0

\* The player has spent the whole balance and the next purchase is refused
\* for lack of funds.
C23_SpentToZero ==
    /\ variant = "phaser"
    /\ money = 0
    /\ purchases >= 2
    /\ placeTile(Scene, previewFlipped, 1, 1, "park").text
          = NeedMoneyText(costs["park"])

(***************************************************************************)
(* C24: the population.                                                    *)
(***************************************************************************)
\* C24: in the Phaser variant, starting from the fresh game (no load), the
\* population is never negative in any state reachable by placements and
\* removals (the university, which lowers population by 1, can only be
\* placed when population >= 1).
C24_PopulationNeverNegative ==
    variant = "phaser" => population >= 0

(***************************************************************************)
(* C25: the current costs.                                                 *)
(***************************************************************************)
\* after is what a call leaves of scene s: nothing was charged and no cost
\* moved, or `type` was charged its current cost and that cost alone moved,
\* to round(1.1 x previous cost), which is more than it was.
CostsFollowCharge(s, after, type) ==
    \/ after.costs = s.costs /\ after.money = s.money
    \/ /\ after.money = s.money - s.costs[type]
       /\ \A k \in Kinds \ {type} : after.costs[k] = s.costs[k]
       /\ 10 * after.costs[type] - 11 * s.costs[type] \in -4..5
       /\ after.costs[type] > s.costs[type]

\* C25: in the Phaser variant the current cost of a kind K changes only
\* when a placement of K is charged, and then becomes round(1.1 x previous
\* cost), which is strictly greater; removals, reorientations, rejected
\* placements and ticks never change any cost, and a cost never decreases
\* (it never falls below the catalog cost).
C25_CostsRiseOnChargeOnly ==
    variant = "phaser" =>
        /\ \A k \in Kinds : costs[k] >= BuildingRegistry[k].cost
        /\ \A k \in Kinds \ {"grass"} :
              incrementCost(FreshScene, k).costs[k] > BuildingRegistry[k].cost
        /\ handleTick(Scene).costs = costs
        /\ \A cell \in Cells, type \in Kinds :
              \E out \in {placeTile(Scene, previewFlipped, cell[1], cell[2], type)} :
                  /\ CostsFollowCharge(Scene, out.s, type)
                  /\ (~out.done \/ type = "grass" \/ grid[cell].type = type)
                        => out.s.costs = costs

\* The house has been charged twice (60, 66, now 73) and one of the two
\* houses has been removed since: the cost stayed where it was.
C25_RaisedTwiceThenRemoved ==
    /\ variant = "phaser"
    /\ costs["house"] = 73
    /\ countTiles(grid, "house") < 2

(***************************************************************************)
(* C26: a tick never takes money.                                          *)
(***************************************************************************)
\* C26: in the Phaser variant an economy tick never decreases the balance,
\* in any economy state, including states where the clamped effective
\* happiness (happiness minus 0.1 per inhabitant above 10, clamped to
\* [-0.5, 1.5]) is zero or negative.
C26_TickNeverDecreases ==
    variant = "phaser" => handleTick(Scene).money >= money

\* The row of shops has brought the effective happiness below zero: the
\* income is negative and the tick leaves the balance where it is.
C26_NegativeIncome ==
    /\ variant = "phaser"
    /\ FSign(FClamp(getEffectiveHappiness(Scene), FNeg(F0_5), F1_5)) < 0
    /\ calculateIncome(Scene) < 0
    /\ handleTick(Scene).money = money

(***************************************************************************)
(* C27: a drag does not build.                                             *)
(***************************************************************************)
\* C27: in the Phaser variant a pointer-up that ends a drag never places a
\* building: if, between a pointer-down and the following pointer-up, any
\* pointer-move while the pointer was down was more than 10 px from the
\* press position, that pointer-up does not call placeTile; and isDragging
\* is false after every pointer-up.
C27_DragNeverPlaces ==
    [][(variant = "phaser" /\ buttons' # buttons /\ buttons' \subseteq buttons) =>
            /\ ~isDragging'
            /\ strayed => ~upPlaced']_vars

(***************************************************************************)
(* C28: the sound is initialized once.                                     *)
(***************************************************************************)
\* C28: audio initialisation happens at most once: for any number of init
\* calls, including calls that start while an earlier call is still
\* suspended at `await Tone.start()`, the synths are created once (React
\* SoundManager.init) and the background music player is started once
\* (Phaser AudioManager.init).
C28_AudioInitOnce == created <= 1


(***************************************************************************)
(* C29.  Phaser game: in every reachable state a tile is hidden exactly    *)
(* when it is a member cell of a multi-cell structure other than the       *)
(* anchor (tile.masterTile set, tile.isMaster false); anchors, single-cell *)
(* buildings and free grass cells are visible.                             *)
(***************************************************************************)
isHiddenMember(tile) == tile.masterTile # NoMaster /\ ~tile.isMaster

C29_HiddenIffMember ==
    variant = "phaser" =>
        \A cell \in Cells : (~grid[cell].visible) <=> isHiddenMember(grid[cell])


(***************************************************************************)
(* C30.  The conversions round-trip: for every cell (row, col) of the      *)
(* grid, worldToGrid(gridToWorld(row, col)) = (row, col) in the Phaser     *)
(* game, and screenToGrid(gridToScreen(x, y, ox, oy), ox, oy) = (x, y) in  *)
(* the React game for integer offsets ox, oy.                              *)
(***************************************************************************)
C30_RoundTrip == isoStep = "grid" => lastGrid = lastCell

C30_OffCentreCell ==
    /\ isoStep = "grid"
    /\ variant = "phaser"
    /\ lastCell = <<3, 1>>
    /\ tileWidth = 100
====
